---------------------------- MODULE Spec2Model ----------------------------
(***************************************************************************)
(* A model of streamlit.py: the catalog loader load_earthquake_data (the   *)
(* HTTP read, the whitespace parser, the DataFrame construction, the       *)
(* decimal-comma normalisation and the timestamp reconstruction), its      *)
(* st.cache_data(ttl=300) wrapper, the recency colour get_color, and the   *)
(* page script's filter and map-marker loop.                               *)
(*                                                                         *)
(* Representation.  A response body is a sequence of symbols: data tokens, *)
(* the blank " " and the newline.  A token is a record [kind, s, a, b]:    *)
(*   word  a column name s;                                                *)
(*   int   a run of digits, standing for the number a;                     *)
(*   dec   a decimal a<s>b whose separator s is "," or ".";                *)
(*   none  the None with which pandas pads a short row.                    *)
(* Floats are kept in tenths, [nan, v]; instants in seconds since          *)
(* 1970-01-01 00:00:00, dates in days since 1970-01-01.                    *)
(***************************************************************************)
EXTENDS Integers, Sequences, FiniteSets, TLC

VARIABLES
    response,               \* the HTTP exchange of the last request (line 15)
    doc,                    \* the parameters the served body was built from
    outcome,                \* what the last call of load_earthquake_data did
    now,                    \* wall clock, seconds
    cache,                  \* the st.cache_data entry of load_earthquake_data
    requests,               \* network requests made by the last call
    calls,                  \* calls made so far
    df,                     \* the page's df (line 131)
    selected_date_range,    \* st.sidebar.date_input value (line 144)
    magnitude_range,        \* st.sidebar.slider value (line 154)
    filtered_df,            \* line 168-179
    markers,                \* CircleMarkers added to the map m
    pc,                     \* position of the page script
    min_date, max_date,     \* the window handed to get_color
    colors                  \* the get_color results obtained for that window

loadVars  == <<response, doc, outcome>>
cacheVars == <<now, cache, requests, calls>>
pageVars  == <<df, selected_date_range, magnitude_range, filtered_df, markers, pc>>
colorVars == <<min_date, max_date, colors>>
vars      == <<loadVars, cacheVars, pageVars, colorVars>>

----------------------------------------------------------------------------
(* Bounds of the model *)

MaxRows == 3        \* data rows in a generated document
MaxNear == 2        \* timestamps tried next to each base timestamp
MaxCalls == 3       \* calls of the cached loader in one behaviour
MaxQueries == 3     \* get_color calls recorded for one window

----------------------------------------------------------------------------
(* Symbols and tokens *)

Tok(kind, s, a, b) == [kind |-> kind, s |-> s, a |-> a, b |-> b]
NL        == Tok("nl", "\n", 0, 0)
SP        == Tok("sp", " ", 0, 0)
Word(s)   == Tok("word", s, 0, 0)
Num(n)    == Tok("int", "", n, 0)
Dec(a, s, b) == Tok("dec", s, a, b)
NoneCell  == Tok("none", "", 0, 0)

Float(v)  == [nan |-> FALSE, v |-> v]
NaN       == [nan |-> TRUE, v |-> 0]

Range(s)  == {s[i] : i \in DOMAIN s}

RECURSIVE MaxLen(_)
MaxLen(rows) ==
    IF rows = <<>> THEN 0
    ELSE LET m == MaxLen(Tail(rows))
         IN  IF Len(Head(rows)) > m THEN Len(Head(rows)) ELSE m

----------------------------------------------------------------------------
(* str.split('\n') and str.split() *)

FirstNL(text) ==
    IF \E i \in DOMAIN text : text[i] = NL
    THEN CHOOSE i \in DOMAIN text :
            text[i] = NL /\ \A j \in 1..(i - 1) : text[j] # NL
    ELSE 0

RECURSIVE SplitLines(_)
SplitLines(text) ==
    LET i == FirstNL(text)
    IN  IF i = 0 THEN <<text>>
        ELSE <<SubSeq(text, 1, i - 1)>> \o SplitLines(SubSeq(text, i + 1, Len(text)))

IsBlank(sym) == sym.kind \in {"sp", "nl"}

WordSplit(line) == SelectSeq(line, LAMBDA sym : ~IsBlank(sym))

DfList(text) ==
    LET line_split == SplitLines(text)
    IN  [i \in 1..Len(line_split) |-> WordSplit(line_split[i])]

----------------------------------------------------------------------------
(* pd.DataFrame(df_list[1:], columns=df_list[0]) and df.iloc[:-1] *)

\* pandas lays a list of rows out as an object array as wide as the longest
\* row, the shorter rows padded with None, and refuses it when that width
\* is not the number of column labels.  An empty list of rows gives an
\* empty frame over the labels.
PadRow(row, width) ==
    [j \in 1..width |-> IF j <= Len(row) THEN row[j] ELSE NoneCell]

PdDataFrame(data, columns) ==
    IF data = <<>>
    THEN [err |-> "", columns |-> columns, index |-> <<>>, rows |-> <<>>]
    ELSE IF MaxLen(data) # Len(columns)
    THEN [err |-> "ValueError", columns |-> columns, index |-> <<>>, rows |-> <<>>]
    ELSE [err |-> "", columns |-> columns,
          index |-> [i \in 1..Len(data) |-> i - 1],
          rows  |-> [i \in 1..Len(data) |-> PadRow(data[i], Len(columns))]]

ILocDropLast(frame) ==
    [frame EXCEPT !.index = SubSeq(frame.index, 1, Len(frame.index) - 1),
                  !.rows  = SubSeq(frame.rows, 1, Len(frame.rows) - 1)]

HasColumn(frame, name) == \E j \in DOMAIN frame.columns : frame.columns[j] = Word(name)

ColPos(frame, name) ==
    CHOOSE j \in DOMAIN frame.columns :
        /\ frame.columns[j] = Word(name)
        /\ \A k \in 1..(j - 1) : frame.columns[k] # Word(name)

Cell(frame, i, name) == frame.rows[i][ColPos(frame, name)]

----------------------------------------------------------------------------
(* .str.replace(',', '.').astype(float) *)

StrReplace(cell) ==
    IF cell.kind = "dec" /\ cell.s = "," THEN [cell EXCEPT !.s = "."] ELSE cell

ParsesAsFloat(cell) ==
    \/ cell.kind \in {"none", "int"}
    \/ cell.kind = "dec" /\ cell.s = "."

AsFloat(cell) ==
    IF cell.kind = "none" THEN NaN
    ELSE IF cell.kind = "int" THEN Float(10 * cell.a)
    ELSE Float(10 * cell.a + cell.b)

ToFloat(cell) == AsFloat(StrReplace(cell))

FloatCols == <<"Lat", "Long", "Dep", "Mag">>
DateCols  == <<"Year", "Mo", "Dy", "Hr", "Mn">>
cols_to_drop == <<"RMS", "dx", "dy", "dz", "Np", "Na", "Gap",
                  "Year", "Mo", "Dy", "Hr", "Mn", "Sec">>

----------------------------------------------------------------------------
(* pd.to_datetime(Year-Mo-Dy Hr:Mn) + pd.Timedelta(hours=2) *)

IsLeap(y) == (y % 4 = 0 /\ y % 100 # 0) \/ y % 400 = 0

DaysInMonth(y, m) ==
    IF m = 2 THEN (IF IsLeap(y) THEN 29 ELSE 28)
    ELSE IF m \in {4, 6, 9, 11} THEN 30 ELSE 31

\* days from 1970-01-01 to the civil date y-m-d (proleptic Gregorian)
DaysFromCivil(y, m, d) ==
    LET yy  == IF m <= 2 THEN y - 1 ELSE y
        era == yy \div 400
        yoe == yy - era * 400
        mp  == IF m > 2 THEN m - 3 ELSE m + 9
        doy == (153 * mp + 2) \div 5 + d - 1
        doe == yoe * 365 + yoe \div 4 - yoe \div 100 + doy
    IN  era * 146097 + doe - 719468

ValidCivil(y, m, d, h, mi) ==
    /\ y \in 1678..2261
    /\ m \in 1..12
    /\ d \in 1..DaysInMonth(y, m)
    /\ h \in 0..23
    /\ mi \in 0..59

\* the string Year-Mo-Dy Hr:Mn of row i parses when every part is a run of
\* digits (a padded None reads "None") and the parts name a calendar minute
ParsesAsDatetime(frame, i) ==
    /\ \A k \in DOMAIN DateCols : Cell(frame, i, DateCols[k]).kind = "int"
    /\ ValidCivil(Cell(frame, i, "Year").a, Cell(frame, i, "Mo").a,
                  Cell(frame, i, "Dy").a, Cell(frame, i, "Hr").a,
                  Cell(frame, i, "Mn").a)

\* a slip that lets the Sec column into the timestamp
ToDatetimeWithSec(frame, i) ==
    DaysFromCivil(Cell(frame, i, "Year").a, Cell(frame, i, "Mo").a,
                  Cell(frame, i, "Dy").a) * 86400
      + Cell(frame, i, "Hr").a * 3600 + Cell(frame, i, "Mn").a * 60
      + Cell(frame, i, "Sec").a

ToDatetime(frame, i) ==
    DaysFromCivil(Cell(frame, i, "Year").a, Cell(frame, i, "Mo").a,
                  Cell(frame, i, "Dy").a) * 86400
      + Cell(frame, i, "Hr").a * 3600 + Cell(frame, i, "Mn").a * 60

\* pd.Timedelta(hours=2), in seconds
GreeceOffset == 2 * 3600

----------------------------------------------------------------------------
(* load_earthquake_data, the function body *)

Raised(err)       == [kind |-> "raised", err |-> err, records |-> <<>>]
Returned(records) == [kind |-> "returned", err |-> "", records |-> records]
NoOutcome         == [kind |-> "none", err |-> "", records |-> <<>>]

MakeRecord(frame, i) ==
    [idx      |-> frame.index[i],
     Lat      |-> ToFloat(Cell(frame, i, "Lat")),
     Long     |-> ToFloat(Cell(frame, i, "Long")),
     Dep      |-> ToFloat(Cell(frame, i, "Dep")),
     Mag      |-> ToFloat(Cell(frame, i, "Mag")),
     Datetime |-> ToDatetime(frame, i) + GreeceOffset]

ParseText(text) ==
    LET df_list == DfList(text)
        built   == PdDataFrame(Tail(df_list), Head(df_list))
        frame   == ILocDropLast(built)
        n       == Len(frame.rows)
    IN  IF built.err # "" THEN Raised(built.err)
        ELSE IF \E k \in DOMAIN FloatCols : ~HasColumn(frame, FloatCols[k])
        THEN Raised("KeyError")
        ELSE IF \E i \in 1..n, k \in DOMAIN FloatCols :
                    ~ParsesAsFloat(StrReplace(Cell(frame, i, FloatCols[k])))
        THEN Raised("ValueError")
        ELSE IF \E k \in DOMAIN DateCols : ~HasColumn(frame, DateCols[k])
        THEN Raised("KeyError")
        ELSE IF \E i \in 1..n : ~ParsesAsDatetime(frame, i)
        THEN Raised("ValueError")
        ELSE IF \E k \in DOMAIN cols_to_drop : ~HasColumn(frame, cols_to_drop[k])
        THEN Raised("KeyError")
        ELSE Returned([i \in 1..n |-> MakeRecord(frame, i)])

\* requests.get raises on a transport failure; a response of any status is
\* handed to the parser (the status is never looked at)
LoadBody(resp) ==
    IF resp.transport # "ok" THEN Raised("ConnectionError")
    ELSE ParseText(resp.text)

----------------------------------------------------------------------------
(* get_color *)

\* a degenerate window read as the oldest
PositionDegenerateOldest(date_ts, min_ts, max_ts) ==
    IF max_ts = min_ts THEN <<0, 1>>
    ELSE IF max_ts > min_ts THEN <<date_ts - min_ts, max_ts - min_ts>>
    ELSE <<min_ts - date_ts, min_ts - max_ts>>

\* The position is kept as an exact fraction <<n, d>>, d > 0 (Python's is
\* the nearest double of the same quotient).
Position(date_ts, min_ts, max_ts) ==
    IF max_ts = min_ts THEN <<1, 1>>
    ELSE IF max_ts > min_ts THEN <<date_ts - min_ts, max_ts - min_ts>>
    ELSE <<min_ts - date_ts, min_ts - max_ts>>

\* max(0, min(1, position))
Clamp(p) ==
    IF p[1] > p[2] THEN <<1, 1>>
    ELSE IF p[1] < 0 THEN <<0, 1>>
    ELSE p

\* int(255 * position), for 0 <= position <= 1
Red(p) == (255 * p[1]) \div p[2]

\* the blue channel made to grow with the position
BlueGrowing(p) == (255 * p[1]) \div p[2]

\* int(255 * (1 - position))
Blue(p) == (255 * (p[2] - p[1])) \div p[2]

HexDigits == <<"0", "1", "2", "3", "4", "5", "6", "7",
               "8", "9", "a", "b", "c", "d", "e", "f">>

\* format(n, '02x') for 0 <= n <= 255
Hex02(n) == <<HexDigits[(n \div 16) + 1], HexDigits[(n % 16) + 1]>>

get_color(date, min_d, max_d) ==
    LET position == Clamp(Position(date, min_d, max_d))
        r == Red(position)
        b == Blue(position)
    IN  <<"#">> \o Hex02(r) \o <<"0", "0">> \o Hex02(b)

----------------------------------------------------------------------------
(* The documents the feed is made to serve *)

Header == <<"Year", "Mo", "Dy", "Hr", "Mn", "Sec", "Lat", "Long", "Dep", "Mag",
            "RMS", "dx", "dy", "dz", "Np", "Na", "Gap">>

\* Four events: one whose +2h crosses the year, one on a leap day whose +2h
\* crosses the month, the specification's own example, and one sharing the
\* example's minute but not its seconds.
Events ==
    << [Year |-> 2023, Mo |-> 12, Dy |-> 31, Hr |-> 22, Mn |-> 30, Sec |-> Dec(15, ",", 3),
        Lat |-> Dec(38, ",", 1), Long |-> Dec(23, ",", 7), Dep |-> Dec(10, ",", 0),
        Mag |-> Dec(4, ",", 5)],
       [Year |-> 2024, Mo |-> 2, Dy |-> 29, Hr |-> 23, Mn |-> 59, Sec |-> Dec(0, ",", 0),
        Lat |-> Dec(37, ".", 9), Long |-> Dec(22, ".", 4), Dep |-> Num(5),
        Mag |-> Dec(0, ",", 0)],
       [Year |-> 2024, Mo |-> 3, Dy |-> 1, Hr |-> 10, Mn |-> 0, Sec |-> Dec(59, ",", 9),
        Lat |-> Dec(38, ",", 1), Long |-> Dec(23, ",", 7), Dep |-> Dec(10, ",", 0),
        Mag |-> Dec(3, ".", 0)],
       [Year |-> 2024, Mo |-> 3, Dy |-> 1, Hr |-> 10, Mn |-> 0, Sec |-> Dec(7, ",", 2),
        Lat |-> Dec(35, ",", 2), Long |-> Dec(25, ",", 1), Dep |-> Dec(33, ",", 3),
        Mag |-> Dec(2, ",", 1)] >>

EventIds == DOMAIN Events

RowTokens(e) ==
    << Num(Events[e].Year), Num(Events[e].Mo), Num(Events[e].Dy), Num(Events[e].Hr),
       Num(Events[e].Mn), Events[e].Sec, Events[e].Lat, Events[e].Long,
       Events[e].Dep, Events[e].Mag,
       Dec(0, ",", 2), Dec(0, ",", 4), Dec(0, ",", 5), Dec(1, ",", 1),
       Num(12), Num(9), Num(140) >>

\* a row as served: whole, its last token missing, or one token too many
ShapedTokens(e, shape) ==
    IF shape = "short" THEN SubSeq(RowTokens(e), 1, Len(RowTokens(e)) - 1)
    ELSE IF shape = "long" THEN Append(RowTokens(e), Num(0))
    ELSE RowTokens(e)

RECURSIVE JoinLine(_)
JoinLine(tokens) ==
    IF Len(tokens) <= 1 THEN tokens
    ELSE <<Head(tokens), SP>> \o JoinLine(Tail(tokens))

HeaderLine == JoinLine([j \in DOMAIN Header |-> Word(Header[j])])

RowShape(d, i) == IF i = d.bad THEN d.shape ELSE "ok"

RECURSIVE RowLines(_, _)
RowLines(d, i) ==
    IF i > Len(d.evs) THEN <<>>
    ELSE <<NL>> \o JoinLine(ShapedTokens(d.evs[i], RowShape(d, i))) \o RowLines(d, i + 1)

\* d.header = FALSE is the empty body
BuildText(d) ==
    IF ~d.header THEN <<>>
    ELSE HeaderLine \o RowLines(d, 1) \o (IF d.trailing THEN <<NL>> ELSE <<>>)

EmptyDoc == [header |-> FALSE, evs |-> <<>>, bad |-> 0, shape |-> "ok", trailing |-> FALSE]

AllDocs ==
    {EmptyDoc} \cup
    { [header |-> TRUE, evs |-> evs, bad |-> bad, shape |-> shape, trailing |-> tr] :
        evs \in UNION {[1..n -> EventIds] : n \in 0..MaxRows},
        bad \in 0..MaxRows, shape \in {"ok", "short", "long"}, tr \in BOOLEAN }

WellShaped(d) ==
    /\ d.bad <= Len(d.evs)
    /\ (d.bad = 0) <=> (d.shape = "ok")

NoResponse == [transport |-> "none", status |-> 0, text |-> <<>>]
FailedGet  == [transport |-> "failed", status |-> 0, text |-> <<>>]
Served(d, status) == [transport |-> "ok", status |-> status, text |-> BuildText(d)]

Docs == {d \in AllDocs : WellShaped(d)}

StatusCodes == {200, 500}

----------------------------------------------------------------------------
(* Initial values of the parts a specification leaves alone *)

LoadIdle ==
    /\ response = NoResponse
    /\ doc = EmptyDoc
    /\ outcome = NoOutcome

CacheIdle ==
    /\ now = 0
    /\ cache = [full |-> FALSE, stored |-> 0, value |-> <<>>, status |-> 0]
    /\ requests = 0
    /\ calls = 0

PageIdle ==
    /\ df = <<>>
    /\ selected_date_range = <<>>
    /\ magnitude_range = <<0, 0>>
    /\ filtered_df = <<>>
    /\ markers = <<>>
    /\ pc = "idle"

ColorIdle ==
    /\ min_date = 0
    /\ max_date = 0
    /\ colors = {}

----------------------------------------------------------------------------
(* SpecParse: one execution of the body of load_earthquake_data *)

InitParse == LoadIdle /\ CacheIdle /\ PageIdle /\ ColorIdle

\* the request fails in transport
LoadTransportFailure ==
    /\ outcome.kind = "none"
    /\ response' = FailedGet
    /\ doc' = EmptyDoc
    /\ outcome' = LoadBody(FailedGet)
    /\ UNCHANGED <<cacheVars, pageVars, colorVars>>

\* the server answers, with some status and some body
LoadResponse ==
    /\ outcome.kind = "none"
    /\ \E d \in Docs, st \in StatusCodes :
          /\ response' = Served(d, st)
          /\ doc' = d
          /\ outcome' = LoadBody(Served(d, st))
    /\ UNCHANGED <<cacheVars, pageVars, colorVars>>

NextParse == LoadTransportFailure \/ LoadResponse

SpecParse == InitParse /\ [][NextParse]_vars

----------------------------------------------------------------------------
(* Properties of the loader body, checked under SpecParse *)

\* the number a decimal token denotes once ',' is read as '.', in tenths
TenthsOf(tok) == IF tok.kind = "int" THEN 10 * tok.a ELSE 10 * tok.a + tok.b

RecordOfEvent(rec, e) ==
    /\ rec.Lat  = Float(TenthsOf(Events[e].Lat))
    /\ rec.Long = Float(TenthsOf(Events[e].Long))
    /\ rec.Dep  = Float(TenthsOf(Events[e].Dep))
    /\ rec.Mag  = Float(TenthsOf(Events[e].Mag))

Answered200 == response.transport = "ok" /\ response.status = 200

\* the events of the rows of d other than its malformed one, in order
RECURSIVE OtherRows(_, _)
OtherRows(d, i) ==
    IF i > Len(d.evs) THEN <<>>
    ELSE (IF i = d.bad THEN <<>> ELSE <<d.evs[i]>>) \o OtherRows(d, i + 1)

ReturnsEvents(evs) ==
    /\ outcome.kind = "returned"
    /\ Len(outcome.records) = Len(evs)
    /\ \A i \in DOMAIN evs : RecordOfEvent(outcome.records[i], evs[i])

\* C1: a header followed by N >= 0 well-formed rows, with or without a
\* trailing blank line, is returned as exactly N records, in input order,
\* whose Lat, Long, Dep and Mag are the rows' tokens with ',' read as '.'.
C1_EveryWellFormedRowIsReturned ==
    (Answered200 /\ doc.header /\ doc.bad = 0) => ReturnsEvents(doc.evs)

\* C2: when exactly one of the N rows, at any position, has fewer or more
\* tokens than the header, the call does not raise and returns the N-1
\* other rows, the mismatching one left out.
C2_MismatchingRowIsExcluded ==
    (Answered200 /\ doc.header /\ doc.bad # 0) => ReturnsEvents(OtherRows(doc, 1))

\* C3: a body without data rows (empty, or only the header line) gives an
\* empty record set and no error.
C3_NoRowsGivesEmptySet ==
    (Answered200 /\ doc.evs = <<>>) =>
        (outcome.kind = "returned" /\ outcome.records = <<>>)

FetchErrors == {"ConnectionError", "HTTPError"}

RequestFailed ==
    \/ response.transport = "failed"
    \/ response.transport = "ok" /\ response.status \notin 200..299

\* C4: when the request does not succeed (transport failure or non-success
\* status) the call fails with a fetch error and returns no records; the
\* body of an unsuccessful response is never parsed into records.
C4_FailedRequestRaisesFetchError ==
    RequestFailed =>
        /\ outcome.kind = "raised"
        /\ outcome.err \in FetchErrors
        /\ outcome.records = <<>>

\* the civil date and time of an instant
CivilOf(ts) ==
    LET days == ts \div 86400
        secs == ts % 86400
        z    == days + 719468
        era  == z \div 146097
        doe  == z - era * 146097
        yoe  == (doe - doe \div 1460 + doe \div 36524 - doe \div 146096) \div 365
        doy  == doe - (365 * yoe + yoe \div 4 - yoe \div 100)
        mp   == (5 * doy + 2) \div 153
        d    == doy - (153 * mp + 2) \div 5 + 1
        m    == IF mp < 10 THEN mp + 3 ELSE mp - 9
        y    == yoe + era * 400 + (IF m <= 2 THEN 1 ELSE 0)
    IN  <<y, m, d, secs \div 3600, (secs % 3600) \div 60, secs % 60>>

\* y-m-d h:mi:00 two hours later, by the calendar's carries
PlusTwoHours(y, m, d, h, mi) ==
    IF h + 2 < 24 THEN <<y, m, d, h + 2, mi, 0>>
    ELSE IF d < DaysInMonth(y, m) THEN <<y, m, d + 1, h + 2 - 24, mi, 0>>
    ELSE IF m < 12 THEN <<y, m + 1, 1, h + 2 - 24, mi, 0>>
    ELSE <<y + 1, 1, 1, h + 2 - 24, mi, 0>>

SameMinute(e, f) ==
    /\ Events[e].Year = Events[f].Year /\ Events[e].Mo = Events[f].Mo
    /\ Events[e].Dy = Events[f].Dy /\ Events[e].Hr = Events[f].Hr
    /\ Events[e].Mn = Events[f].Mn

\* the event of the row a record was made from (its DataFrame index)
EventOf(rec) == doc.evs[rec.idx + 1]

\* C5: the Datetime of the record of every valid row is the instant
\* Year-Mo-Dy Hr:Mn:00 plus exactly two hours, carried over day, month and
\* year ends; rows that differ only in Sec get the same Datetime.
C5_DatetimeIsFieldsPlusTwoHours ==
    outcome.kind = "returned" =>
        \A i \in DOMAIN outcome.records :
            LET rec == outcome.records[i]
                e   == EventOf(rec)
            IN  /\ rec.idx + 1 \in DOMAIN doc.evs
                /\ CivilOf(rec.Datetime) =
                       PlusTwoHours(Events[e].Year, Events[e].Mo, Events[e].Dy,
                                    Events[e].Hr, Events[e].Mn)
                /\ \A j \in DOMAIN outcome.records :
                       SameMinute(e, EventOf(outcome.records[j]))
                           => outcome.records[j].Datetime = rec.Datetime

\* a returned set holding the year-crossing event and two events of one
\* minute whose Sec fields differ
C5_Witness ==
    /\ outcome.kind = "returned"
    /\ \E i, j, k \in DOMAIN outcome.records :
          /\ EventOf(outcome.records[i]) = 1
          /\ EventOf(outcome.records[j]) = 3
          /\ EventOf(outcome.records[k]) = 4
          /\ Events[3].Sec # Events[4].Sec
          /\ CivilOf(outcome.records[i].Datetime) = <<2024, 1, 1, 0, 30, 0>>
          /\ CivilOf(outcome.records[j].Datetime) = <<2024, 3, 1, 12, 0, 0>>

----------------------------------------------------------------------------
(* SpecCache: load_earthquake_data behind @st.cache_data(ttl=300) *)

ttl == 300

\* time that passes between two calls, seconds
Steps == {1, ttl - 1, ttl}

\* bodies served while the cache is exercised
CacheDocs == {d \in Docs : Len(d.evs) <= 1 /\ d.bad = 0}

EmptyCache == [full |-> FALSE, stored |-> 0, value |-> <<>>, status |-> 0]

\* an entry is served while it is younger than ttl
Fresh(entry, t) == entry.full /\ t - entry.stored < ttl

\* what a miss leaves in the cache: the value of a call that returned,
\* nothing when the call raised (the expired entry is gone either way)
Store(out, resp, t) ==
    IF out.kind = "returned"
    THEN [full |-> TRUE, stored |-> t, value |-> out.records, status |-> resp.status]
    ELSE EmptyCache

InitCache == LoadIdle /\ CacheIdle /\ PageIdle /\ ColorIdle

\* a call that finds a fresh entry: no request, the stored value is returned
CallHit ==
    /\ calls < MaxCalls
    /\ \E dt \in Steps :
          /\ now' = now + dt
          /\ Fresh(cache, now + dt)
    /\ outcome' = Returned(cache.value)
    /\ requests' = 0
    /\ calls' = calls + 1
    /\ UNCHANGED <<response, doc, cache, pageVars, colorVars>>

\* a call that finds no fresh entry and whose request fails in transport
CallMissTransportFailure ==
    /\ calls < MaxCalls
    /\ \E dt \in Steps :
          /\ now' = now + dt
          /\ ~Fresh(cache, now + dt)
          /\ cache' = Store(LoadBody(FailedGet), FailedGet, now + dt)
    /\ response' = FailedGet
    /\ doc' = EmptyDoc
    /\ outcome' = LoadBody(FailedGet)
    /\ requests' = 1
    /\ calls' = calls + 1
    /\ UNCHANGED <<pageVars, colorVars>>

\* a call that finds no fresh entry and whose request is answered
CallMissResponse ==
    /\ calls < MaxCalls
    /\ \E dt \in Steps, d \in CacheDocs, st \in StatusCodes :
          /\ now' = now + dt
          /\ ~Fresh(cache, now + dt)
          /\ response' = Served(d, st)
          /\ doc' = d
          /\ outcome' = LoadBody(Served(d, st))
          /\ cache' = Store(LoadBody(Served(d, st)), Served(d, st), now + dt)
    /\ requests' = 1
    /\ calls' = calls + 1
    /\ UNCHANGED <<pageVars, colorVars>>

NextCache == CallHit \/ CallMissTransportFailure \/ CallMissResponse

SpecCache == InitCache /\ [][NextCache]_vars

----------------------------------------------------------------------------
(* Properties of the cached loader, checked under SpecCache *)

\* C10: a call returns the cached snapshot without a network request only
\* if that snapshot was fetched successfully at most 300 seconds earlier;
\* otherwise it makes exactly one request; and a call whose fetch fails
\* leaves no snapshot cached.
C10_CacheServesOnlyFreshSuccessfulFetches ==
    calls > 0 =>
        /\ requests \in {0, 1}
        /\ requests = 0 =>
              /\ cache.full
              /\ outcome = Returned(cache.value)
              /\ cache.status \in 200..299
              /\ now - cache.stored <= 300
        /\ (requests = 1 /\ RequestFailed) => ~cache.full

\* the part of C10 that does not rest on the status of the response: a
\* snapshot is served without a request only when stored at most 300
\* seconds earlier, any other call makes exactly one request, and a call
\* that raises leaves nothing cached
CacheServesOnlyFreshSnapshots ==
    calls > 0 =>
        /\ requests \in {0, 1}
        /\ requests = 0 =>
              /\ cache.full
              /\ outcome = Returned(cache.value)
              /\ now - cache.stored <= 300
        /\ (requests = 1 /\ outcome.kind = "raised") => ~cache.full

----------------------------------------------------------------------------
(* SpecColor: get_color over one window *)

\* timestamps next to three bases, far enough apart for a window of more
\* than 255 seconds
Bases == {0, 256, 1020}
ColorTimes == {base + k : base \in Bases, k \in 0..MaxNear}

InitColor ==
    /\ LoadIdle /\ CacheIdle /\ PageIdle
    /\ min_date \in ColorTimes
    /\ max_date \in ColorTimes
    /\ colors = {}

CallGetColor ==
    /\ Cardinality(colors) < MaxQueries
    /\ \E date \in ColorTimes :
          colors' = colors \cup
                      {[date |-> date, color |-> get_color(date, min_date, max_date)]}
    /\ UNCHANGED <<min_date, max_date, loadVars, cacheVars, pageVars>>

NextColor == CallGetColor

SpecColor == InitColor /\ [][NextColor]_vars

----------------------------------------------------------------------------
(* Properties of get_color, checked under SpecColor *)

HexValue(ch) == (CHOOSE i \in DOMAIN HexDigits : HexDigits[i] = ch) - 1

IsHexColor(c) == Len(c) = 7 /\ c[1] = "#" /\ \A i \in 2..7 : c[i] \in Range(HexDigits)

RedChannel(c)   == 16 * HexValue(c[2]) + HexValue(c[3])
GreenChannel(c) == 16 * HexValue(c[4]) + HexValue(c[5])
BlueChannel(c)  == 16 * HexValue(c[6]) + HexValue(c[7])

PureBlue == <<"#", "0", "0", "0", "0", "f", "f">>
PureRed  == <<"#", "f", "f", "0", "0", "0", "0">>

\* three results for t_min = min_date < t_mid < t_max = max_date
Gradient(lo, mid, hi) ==
    /\ lo.date = min_date /\ hi.date = max_date
    /\ lo.date < mid.date /\ mid.date < hi.date

WellFormedColor(c) ==
    /\ IsHexColor(c)
    /\ GreenChannel(c) = 0
    /\ RedChannel(c) \in 0..255
    /\ BlueChannel(c) \in 0..255

\* C7: for every date and every min_date <= max_date the result is
\* '#rr00bb' with both channels in 0..255; a date at or before min_date
\* gives '#0000ff', a date at or after max_date gives '#ff0000', and in a
\* degenerate window every date gives '#ff0000'.
C7_ClampedAndDegenerateNewest ==
    min_date <= max_date =>
        \A q \in colors :
            /\ WellFormedColor(q.color)
            /\ q.date <= min_date => q.color = PureBlue
            /\ q.date >= max_date => q.color = PureRed
            /\ min_date = max_date => q.color = PureRed

\* C7 as amended: the same, the oldest colour '#0000ff' being that of a
\* date at or before min_date in a window with min_date < max_date.
C7_ClampedOrDegenerateNewest ==
    min_date <= max_date =>
        \A q \in colors :
            /\ WellFormedColor(q.color)
            /\ (q.date <= min_date /\ min_date < max_date) => q.color = PureBlue
            /\ q.date >= max_date => q.color = PureRed
            /\ min_date = max_date => q.color = PureRed

\* one window queried before, inside and after it
C7_Witness ==
    /\ min_date < max_date
    /\ \E q1, q2, q3 \in colors :
          /\ q1.date < min_date /\ q1.color = PureBlue
          /\ q2.date > min_date /\ q2.date < max_date
          /\ q3.date > max_date /\ q3.color = PureRed

----------------------------------------------------------------------------
(* SpecPage: the page script over a loaded frame *)

DateOf(ts) == ts \div 86400

RECURSIVE MaxOver(_), MinOver(_)
MaxOver(S) ==
    LET x == CHOOSE y \in S : TRUE
    IN  IF S = {x} THEN x
        ELSE LET m == MaxOver(S \ {x}) IN IF x > m THEN x ELSE m
MinOver(S) ==
    LET x == CHOOSE y \in S : TRUE
    IN  IF S = {x} THEN x
        ELSE LET m == MinOver(S \ {x}) IN IF x < m THEN x ELSE m

Datetimes(frame) == {frame[i].Datetime : i \in DOMAIN frame}
Mags(frame)      == {frame[i].Mag.v : i \in DOMAIN frame}

\* the frames the loader returns over the generated documents; the widgets
\* are modelled over a frame that has rows
PageFrames ==
    {out.records : out \in {o \in {LoadBody(Served(d, 200)) : d \in Docs} :
                                o.kind = "returned" /\ o.records # <<>>}}

\* st.sidebar.date_input: a start and an end within min_date..max_date, or,
\* while a range is being picked, the start alone
DateInputs(frame) ==
    LET days == {DateOf(t) : t \in Datetimes(frame)}
    IN  {<<d>> : d \in days} \cup
        {p \in days \X days : p[1] <= p[2]}

\* st.sidebar.slider: a pair lo <= hi; the stops tried are the default
\* start 0.0 and the magnitudes of the frame
SliderInputs(frame) ==
    LET stops == {0} \cup Mags(frame)
    IN  {p \in stops \X stops : p[1] <= p[2]}

InMask(rec, dates, mags) ==
    /\ DateOf(rec.Datetime) >= dates[1]
    /\ DateOf(rec.Datetime) <= dates[2]
    /\ ~rec.Mag.nan
    /\ rec.Mag.v >= mags[1]
    /\ rec.Mag.v <= mags[2]

\* lines 168-179
FilteredDf(frame, dates, mags) ==
    IF Len(dates) = 2
    THEN SelectSeq(frame, LAMBDA rec : InMask(rec, dates, mags))
    ELSE frame

Green == <<"g", "r", "e", "e", "n">>

\* row['Mag'] * 2.8 + 1.4, in hundredths
Radius(rec) == 28 * rec.Mag.v + 140

CircleMarker(rec, fill) ==
    [idx |-> rec.idx, location |-> <<rec.Lat, rec.Long>>,
     radius |-> Radius(rec), fill_color |-> fill]

\* lines 219-243: a marker for every row that is not at the latest Datetime
LoopMarkers(frame) ==
    LET older == SelectSeq(frame, LAMBDA rec : rec.Datetime # MaxOver(Datetimes(frame)))
    IN  [i \in DOMAIN older |->
            CircleMarker(older[i], get_color(older[i].Datetime,
                                             MinOver(Datetimes(frame)),
                                             MaxOver(Datetimes(frame))))]

\* idxmax: the first row at the latest Datetime
MostRecent(frame) ==
    frame[CHOOSE i \in DOMAIN frame :
            /\ frame[i].Datetime = MaxOver(Datetimes(frame))
            /\ \A j \in 1..(i - 1) : frame[j].Datetime # MaxOver(Datetimes(frame))]

InitPage ==
    /\ LoadIdle /\ CacheIdle /\ ColorIdle
    /\ df \in PageFrames
    /\ selected_date_range = <<>>
    /\ magnitude_range = <<0, 0>>
    /\ filtered_df = <<>>
    /\ markers = <<>>
    /\ pc = "sidebar"

\* lines 141-160: the widgets hand back what the user has set
Sidebar ==
    /\ pc = "sidebar"
    /\ selected_date_range' \in DateInputs(df)
    /\ magnitude_range' \in SliderInputs(df)
    /\ pc' = "filter"
    /\ UNCHANGED <<df, filtered_df, markers, loadVars, cacheVars, colorVars>>

Filter ==
    /\ pc = "filter"
    /\ filtered_df' = FilteredDf(df, selected_date_range, magnitude_range)
    /\ pc' = "map"
    /\ UNCHANGED <<df, selected_date_range, magnitude_range, markers,
                   loadVars, cacheVars, colorVars>>

\* lines 215-263: the loop, then the marker of the most recent row; idxmax
\* of an empty column raises ValueError
RenderMap ==
    /\ pc = "map"
    /\ IF filtered_df = <<>>
       THEN /\ markers' = <<>>
            /\ pc' = "raised"
       ELSE /\ markers' = Append(LoopMarkers(filtered_df),
                                 CircleMarker(MostRecent(filtered_df), Green))
            /\ pc' = "rendered"
    /\ UNCHANGED <<df, selected_date_range, magnitude_range, filtered_df,
                   loadVars, cacheVars, colorVars>>

NextPage == Sidebar \/ Filter \/ RenderMap

SpecPage == InitPage /\ [][NextPage]_vars

----------------------------------------------------------------------------
(* Properties of the page, checked under SpecPage *)

Filtered == pc \in {"map", "rendered", "raised"}

\* the bounds the widgets show: a lone date is the start of the range
WithinSelection(rec) ==
    /\ rec.Mag.v >= magnitude_range[1]
    /\ rec.Mag.v <= magnitude_range[2]
    /\ DateOf(rec.Datetime) >= selected_date_range[1]
    /\ Len(selected_date_range) = 2 => DateOf(rec.Datetime) <= selected_date_range[2]

\* C8: whatever the widgets hold, a lone date included, the filtered set
\* is exactly the records whose Mag lies in the magnitude range and whose
\* date lies in the date range, bounds included.
C8_FilteredSetIsTheSelection ==
    Filtered => filtered_df = SelectSeq(df, WithinSelection)

\* C9: for every filtered set, the empty one and one with several records
\* at the latest Datetime included, the map is drawn without raising and
\* gets exactly one marker per filtered record.
C9_OneMarkerPerFilteredRecord ==
    pc \in {"rendered", "raised"} =>
        /\ pc = "rendered"
        /\ Len(markers) = Len(filtered_df)

=============================================================================
